---- MODULE Spec2Model ----
(***************************************************************************)
(* A model of the background BLAST job pipeline of NCBIBlastSearchApp:     *)
(* the /run dispatcher, the run_blast_job thread of every job with its     *)
(* wait_for_blast poll loop, and the admin's delete_job, over the two      *)
(* SQLite tables jobs and results.                                         *)
(*                                                                         *)
(* A state of the model is a committed state of the database together with *)
(* the position and the local variables of every runner thread.  Every     *)
(* handler that writes runs one transaction, so each is one action.        *)
(***************************************************************************)
EXTENDS Integers, Sequences, FiniteSets, TLC

(* ------------------------------ bounds -------------------------------- *)

\* Number of /run requests that create a job (uuid4 never repeats).
MaxJobs == 1
\* Accessions that all /run requests together submit.
MaxAccessions == 2
\* Largest search timeout (seconds) a /run request carries.
MaxTimeout == 8
\* Longest time (seconds) one status request takes beyond the 8 s sleep.
MaxLatency == 1

\* Most accessions of the one job of LongJobSpec.
MaxLongJob == 50

(* ------------------------- program constants -------------------------- *)

\* time.sleep(8) of wait_for_blast
POLL_INTERVAL == 8

JobIds == 1..MaxJobs

\* The search timeouts of the model: 0 ("no timeout"), a budget shorter than
\* one poll cycle, and MaxTimeout.
Timeouts == {0, 5, MaxTimeout}

\* A form line is a sequence of characters; " " stands for any white space.
\* Line k of an input of the model is blank or holds, between white space,
\* the k-th accession name (the names come round again after the last): the
\* accessions of a job of up to five lines are distinct.
AccessionNames == <<"P01308", "BAD1", "Q9Y6K9", "O15111", "P25963">>
AccessionName(k) == AccessionNames[((k - 1) % Len(AccessionNames)) + 1]
LineChoices(k) == {<<" ">>, <<" ", AccessionName(k), " ">>}

(* --------------------------- pure functions --------------------------- *)

\* str.strip() on a line: drops the leading and the trailing white space.
RECURSIVE LStrip(_)
LStrip(s) == IF s # <<>> /\ Head(s) = " " THEN LStrip(Tail(s)) ELSE s

RECURSIVE RStrip(_)
RStrip(s) ==
    IF s # <<>> /\ s[Len(s)] = " " THEN RStrip(SubSeq(s, 1, Len(s) - 1)) ELSE s

Strip(s) == RStrip(LStrip(s))

\* Mutant of IsBlankInput: the input is tested without strip().
IsBlankInputNoStrip(lines) == lines = <<>>

\* accession_input.strip() is falsy: nothing but white space in every line.
IsBlankInput(lines) == \A k \in 1..Len(lines) : Strip(lines[k]) = <<>>

\* [a.strip() for a in accession_input.splitlines() if a.strip()]
\* (a stripped line of the model is the one name it holds)
ParseAccessions(lines) ==
    LET kept == SelectSeq(lines, LAMBDA a : Strip(a) # <<>>)
    IN  [k \in 1..Len(kept) |-> Strip(kept[k])[1]]

\* wait_timeout = None if timeout == 0 else timeout
\* (None is the empty sequence, a number t is <<t>>)
WaitTimeout(t) == IF t = 0 THEN <<>> ELSE <<t>>

\* Mutant of Progress: the division by total is forgotten.
ProgressNoTotal(done, total) == done * 100

\* 2^n
RECURSIVE Pow2(_)
Pow2(n) == IF n = 0 THEN 1 ELSE 2 * Pow2(n - 1)

\* 2^s modulo n, by repeated squaring
RECURSIVE Pow2Mod(_, _)
Pow2Mod(s, n) ==
    IF s = 0 THEN 1 % n
    ELSE LET h == Pow2Mod(s \div 2, n)
         IN  IF s % 2 = 0 THEN (h * h) % n ELSE (2 * h * h) % n

\* The binary exponent of the float done / total, negated: the least n with
\* done * 2^n >= total.
RECURSIVE NegExponent(_, _)
NegExponent(done, total) ==
    IF done >= total THEN 0 ELSE 1 + NegExponent(2 * done, total)

\* The binary exponent of the floats next below the whole number m: the a
\* with 2^a < m <= 2^(a+1).
RECURSIVE ExponentBelow(_)
ExponentBelow(m) ==
    IF m = 1 THEN 0 - 1 ELSE IF m = 2 THEN 0 ELSE 1 + ExponentBelow((m + 1) \div 2)

\* int((i + 1) / total * 100), computed as Python computes it, in IEEE-754
\* binary64 with round to nearest.  The quotient q is the multiple M * 2^-s
\* of 2^-s (s = 52 + NegExponent) next to done / total, so that
\* done * 2^s = M * total + r with |r| <= total / 2; r is found modulo
\* total.  When 100 * done / total is no whole number the two roundings are
\* too small to reach the next whole number and int() gives the floor.  When
\* it is the whole number m, the product 100 * q lies 100 * r / total units
\* of 2^-s below m; it rounds to a float below m, and int() gives m - 1, when
\* that is more than half a step of the floats next below m.
Progress(done, total) ==
    LET m == (done * 100) \div total
        ne == NegExponent(done, total)
        r == ((done % total) * Pow2Mod(52 + ne, total)) % total
        step == Pow2(ExponentBelow(m) + ne)
    IN  IF (done * 100) % total # 0 THEN m
        ELSE IF r > 0 /\ 2 * r <= total /\ 200 * r > step * total
             THEN m - 1
             ELSE m

\* The markers a SearchInfo response text may hold.
Markers == {"Status=READY", "ThereAreHits=yes", "Status=FAILED"}

\* What a status request gives: an exception, or a response text.
Answers ==
    {[raised |-> TRUE, text |-> {}]} \cup {[raised |-> FALSE, text |-> t] : t \in SUBSET Markers}

\* The classification of a response text by wait_for_blast; "WAITING" is the
\* fall through to the next cycle.
SearchInfoStatus(text) ==
    IF "Status=READY" \in text
    THEN IF "ThereAreHits=yes" \in text THEN "READY" ELSE "NO_HITS"
    ELSE IF "Status=FAILED" \in text THEN "FAILED" ELSE "WAITING"

\* The result payloads of the model: a document that is not well formed, one
\* with no Hit element, one with a hit ("" and FALSE: the element is absent).
Payloads == {
    [wellformed |-> FALSE, hit |-> FALSE, acc |-> "", species |-> "", hsp |-> FALSE],
    [wellformed |-> TRUE, hit |-> FALSE, acc |-> "", species |-> "", hsp |-> FALSE],
    [wellformed |-> TRUE, hit |-> TRUE, acc |-> "NP_001", species |-> "Danio rerio", hsp |-> TRUE] }

\* parse_top_hit on a well-formed payload: (accession, species, bit_score, evalue)
ParseTopHit(xml) ==
    IF ~xml.hit THEN <<"NA", "NA", "NA", "NA">>
    ELSE << IF xml.acc = "" THEN "NA" ELSE xml.acc,
            IF xml.species = "" THEN "NA" ELSE xml.species,
            IF xml.hsp THEN "52.4" ELSE "NA",
            IF xml.hsp THEN "1e-10" ELSE "NA" >>

\* The five fields of a result row.
Fields(top, gene, species, bit, ev) ==
    [top_hit |-> top, gene |-> gene, species |-> species, bit_score |-> bit, evalue |-> ev]

\* top_hit = gene = species = bit_score = evalue = v
AllFields(v) == Fields(v, v, v, v, v)

\* Mutant of ErrorFields: the error text is not recorded.
ErrorFieldsNoText(msg) == Fields("ERROR", "ERROR", "NA", "NA", "NA")

\* The except branch of the accession loop: str(e) goes to species.
ErrorFields(msg) == Fields("ERROR", "ERROR", msg, "NA", "NA")

\* What str(e) may be for the exceptions of the model.
ErrorTexts ==
    {"Failed to fetch FASTA", "Failed to obtain RID", "RequestException", "ParseError", "TypeError"}

\* Mutant of StatusFields: the TIMEOUT branch is missing.
StatusFieldsNoTimeout(status) ==
    IF status = "NO_HITS" THEN AllFields("No hit") ELSE AllFields("NA")

\* The fields that the elif chain gives a status other than READY.
StatusFields(status) ==
    IF status = "NO_HITS" THEN AllFields("No hit")
    ELSE IF status = "TIMEOUT"
         THEN Fields("TIMEOUT", "TIMEOUT", "BLAST search timed out", "NA", "NA")
         ELSE AllFields("NA")

\* The local variables of a thread before an accession's work assigns them.
NoFields == AllFields("unset")

\* The form inputs of the model: up to MaxAccessions lines.
RECURSIVE InputsOfLen(_)
InputsOfLen(n) ==
    IF n = 0 THEN {<<>>}
    ELSE {Append(q, x) : q \in InputsOfLen(n - 1), x \in LineChoices(n)}

Inputs == UNION {InputsOfLen(n) : n \in 0..MaxAccessions}

(* ------------------------------- state -------------------------------- *)

VARIABLES
    jobs,       \* table jobs: the rows [id, status, progress]
    results,    \* table results: the rows in insertion order
    files,      \* blast_results_ncbi: the <<job_id, accession>> of its files
    nextId,     \* the number of job ids uuid4 has handed out
    pc,         \* per job id: the position of its run_blast_job thread
    accessions, \* per thread: the accessions argument
    timeout,    \* per thread: the timeout argument
    i,          \* per thread: the loop index
    status,     \* per thread: what wait_for_blast returned
    fields,     \* per thread: top_hit, gene, species, bit_score, evalue
    elapsed,    \* per thread: seconds since start_time of the running poll
    attempts,   \* per thread: attempts of the running poll
    called,     \* per thread: whether it has made a remote call (history)
    lost,       \* per thread: the store writes that raised (history)
    reply       \* the response to the last /status, /results or /download_csv

vars == <<jobs, results, files, nextId, pc, accessions, timeout, i, status,
          fields, elapsed, attempts, called, lost, reply>>

dbVars == <<jobs, results>>
pipelineVars == <<jobs, results, files, nextId, pc, accessions, timeout, i, status,
                  fields, elapsed, attempts, called, lost>>
pollVars == <<elapsed, attempts>>
histVars == <<called, lost>>
argVars == <<accessions, timeout>>

\* No reader has been asked yet.
NoReply == [op |-> "none", job_id |-> 0, code |-> 0, job |-> <<>>, rows |-> <<>>, lines |-> <<>>]

\* init_db: both tables empty; no request has been served.  ids are the job
\* ids that uuid4 will hand out.
InitOf(ids) ==
    /\ jobs = {}
    /\ results = <<>>
    /\ files = {}
    /\ nextId = 0
    /\ pc = [j \in ids |-> "none"]
    /\ accessions = [j \in ids |-> <<>>]
    /\ timeout = [j \in ids |-> 0]
    /\ i = [j \in ids |-> 0]
    /\ status = [j \in ids |-> "unset"]
    /\ fields = [j \in ids |-> NoFields]
    /\ elapsed = [j \in ids |-> 0]
    /\ attempts = [j \in ids |-> 0]
    /\ called = [j \in ids |-> FALSE]
    /\ lost = [j \in ids |-> [running |-> FALSE, accession |-> 0, done |-> FALSE]]
    /\ reply = NoReply

Init == InitOf(JobIds)

(* ------------------------------ the tables ---------------------------- *)

\* A row of table jobs (user_id, organism and created_at are never read by
\* the pipeline and are left out).
JobRow(j, st, prog) == [id |-> j, status |-> st, progress |-> prog]

\* SELECT progress, status FROM jobs WHERE id=?  (id is the primary key)
JobExists(j) == \E r \in jobs : r.id = j
GetJob(j) == CHOOSE r \in jobs : r.id = j

\* Mutant of InsertJob: the row is inserted with a status of its own.
InsertJobPending(j) == jobs \cup {JobRow(j, "PENDING", 0)}

\* INSERT INTO jobs (id, user_id, organism): progress and status take the
\* column defaults 0 and 'RUNNING'.
InsertJob(j) == jobs \cup {JobRow(j, "RUNNING", 0)}

\* Mutant of UpdateJob: an upsert, which writes the row when there is none.
UpdateJobUpsert(j, st, prog) == {r \in jobs : r.id # j} \cup {JobRow(j, st, prog)}

\* UPDATE jobs SET status=?, progress=? WHERE id=?: no row, no change.
UpdateJob(j, st, prog) == {IF r.id = j THEN JobRow(j, st, prog) ELSE r : r \in jobs}

\* Mutant of UpdateProgress: the WHERE clause is missing.
UpdateProgressEveryRow(j, prog) == {JobRow(r.id, r.status, prog) : r \in jobs}

\* UPDATE jobs SET progress=? WHERE id=?
UpdateProgress(j, prog) == {IF r.id = j THEN JobRow(j, r.status, prog) ELSE r : r \in jobs}

\* Mutant of InsertResult: the row is not inserted.
InsertResultDropped(j, a, f) == results

\* INSERT INTO results (job_id, accession, top_hit, gene, species, bit_score,
\* evalue): foreign keys are not enforced (no PRAGMA foreign_keys).
InsertResult(j, a, f) == Append(results, [job_id |-> j, accession |-> a, f |-> f])

\* SELECT * FROM results WHERE job_id=?
ResultsOf(j) == SelectSeq(results, LAMBDA r : r.job_id = j)

(* ---------------------------- the dispatcher -------------------------- *)

\* The accessions submitted so far.
RECURSIVE SumLen(_, _)
SumLen(f, S) ==
    IF S = {} THEN 0
    ELSE LET x == CHOOSE y \in S : TRUE IN Len(f[x]) + SumLen(f, S \ {x})

Submitted == SumLen(accessions, DOMAIN accessions)

\* run(): POST /run with the session's user id (0: not logged in), the lines
\* of the accession field and the timeout field.  The job id is the next of
\* the ids of the model.
StartJob(user_id, lines, t) ==
    /\ user_id # 0
    /\ ~IsBlankInput(lines)
    /\ nextId + 1 \in DOMAIN pc
    /\ LET job_id == nextId + 1
       IN  /\ nextId' = job_id
           /\ jobs' = InsertJob(job_id)
           /\ pc' = [pc EXCEPT ![job_id] = "start"]
           /\ accessions' = [accessions EXCEPT ![job_id] = ParseAccessions(lines)]
           /\ timeout' = [timeout EXCEPT ![job_id] = t]
    /\ UNCHANGED <<results, files, reply, i, status, fields, pollVars, histVars>>

\* run() for the requests of the model, which together submit no more than
\* MaxAccessions accessions.
Run(user_id, lines, t) ==
    /\ Submitted + Len(ParseAccessions(lines)) <= MaxAccessions
    /\ StartJob(user_id, lines, t)

\* run(): the two early returns, the redirect to the login page and the 400.
RunRejected(user_id, lines) ==
    /\ user_id = 0 \/ IsBlankInput(lines)
    /\ UNCHANGED vars

\* delete_job(): one transaction deletes the job's results and its row.
DeleteJob(is_admin, j) ==
    /\ is_admin # 0
    /\ j \in 1..nextId
    /\ results' = SelectSeq(results, LAMBDA r : r.job_id # j)
    /\ jobs' = {r \in jobs : r.id # j}
    /\ UNCHANGED <<files, nextId, reply, pc, argVars, i, status, fields, pollVars, histVars>>

\* delete_job(): 403 for a session that is not an admin's.
DeleteRejected(is_admin) ==
    /\ is_admin = 0
    /\ UNCHANGED vars

(* ------------------------------ the readers --------------------------- *)

\* Mutant of StatusReply: an id without a row is answered like a new job.
StatusReplyDefault(job_id) ==
    [op |-> "status", job_id |-> job_id, code |-> 200,
     job |-> IF JobExists(job_id)
             THEN <<[progress |-> GetJob(job_id).progress, status |-> GetJob(job_id).status]>>
             ELSE <<[progress |-> 0, status |-> "RUNNING"]>>,
     rows |-> <<>>, lines |-> <<>>]

\* status(): the JSON of the row's progress and status, or 404 with
\* {"error": "Invalid job ID"} when fetchone() gives no row (job is empty).
StatusReply(job_id) ==
    [op |-> "status", job_id |-> job_id,
     code |-> IF JobExists(job_id) THEN 200 ELSE 404,
     job |-> IF JobExists(job_id)
             THEN <<[progress |-> GetJob(job_id).progress, status |-> GetJob(job_id).status]>>
             ELSE <<>>,
     rows |-> <<>>, lines |-> <<>>]

\* status(): GET /status/<job_id>
Status(job_id) ==
    /\ reply' = StatusReply(job_id)
    /\ UNCHANGED pipelineVars

\* results(): GET /results/<job_id> renders the rows of the job.
Results(job_id) ==
    /\ reply' = [op |-> "results", job_id |-> job_id, code |-> 200,
                 job |-> <<>>, rows |-> ResultsOf(job_id), lines |-> <<>>]
    /\ UNCHANGED pipelineVars

\* download_csv(): the header line and one line for every row.
CsvHeaders == <<"accession", "top_hit", "gene", "species", "bit_score", "evalue">>
CsvLine(r) == <<r.accession, r.f.top_hit, r.f.gene, r.f.species, r.f.bit_score, r.f.evalue>>

\* download_csv(): GET /download_csv/<job_id>
DownloadCsv(job_id) ==
    /\ reply' = [op |-> "download_csv", job_id |-> job_id, code |-> 200,
                 job |-> <<>>, rows |-> <<>>,
                 lines |-> <<CsvHeaders>> \o
                     [k \in 1..Len(ResultsOf(job_id)) |-> CsvLine(ResultsOf(job_id)[k])]]
    /\ UNCHANGED pipelineVars

(* ------------------------- the runner thread -------------------------- *)

total(j) == Len(accessions[j])
acc(j) == accessions[j][i[j] + 1]

\* The thread leaves the try/except of accession i with its five fields set.
\* The returned status and the variables of the poll are not read again
\* before they are reassigned: they go back to their initial values.
ToSave(j, f) ==
    /\ pc' = [pc EXCEPT ![j] = "save"]
    /\ fields' = [fields EXCEPT ![j] = f]
    /\ status' = [status EXCEPT ![j] = "unset"]
    /\ elapsed' = [elapsed EXCEPT ![j] = 0]
    /\ attempts' = [attempts EXCEPT ![j] = 0]

\* Lines 112-118: the UPDATE that marks the job RUNNING commits.
MarkRunning(j) ==
    /\ pc[j] = "start"
    /\ jobs' = UpdateJob(j, "RUNNING", 0)
    /\ pc' = [pc EXCEPT ![j] = IF total(j) > 0 THEN "sleep" ELSE "finish"]
    /\ UNCHANGED <<results, files, nextId, reply, argVars, i, status, fields, pollVars, histVars>>

\* Mutant of MarkRunningFails: the error is logged and the thread goes on.
MarkRunningFailsGoesOn(j) ==
    /\ pc[j] = "start"
    /\ pc' = [pc EXCEPT ![j] = IF total(j) > 0 THEN "sleep" ELSE "finish"]
    /\ lost' = [lost EXCEPT ![j].running = TRUE]
    /\ UNCHANGED <<dbVars, files, nextId, reply, argVars, i, status, fields, pollVars, called>>

\* Lines 119-121: the write raises; the thread returns.
MarkRunningFails(j) ==
    /\ pc[j] = "start"
    /\ pc' = [pc EXCEPT ![j] = "aborted"]
    /\ lost' = [lost EXCEPT ![j].running = TRUE]
    /\ UNCHANGED <<dbVars, files, nextId, reply, argVars, i, status, fields, pollVars, called>>

\* Line 126: time.sleep(3) at the head of every accession's work.
Sleep(j) ==
    /\ pc[j] = "sleep"
    /\ pc' = [pc EXCEPT ![j] = "fetch_fasta"]
    /\ UNCHANGED <<dbVars, files, nextId, reply, argVars, i, status, fields, pollVars, histVars>>

\* Line 127, fetch_fasta: a FASTA text, or an exception (the status is not
\* 200 or the text does not start with ">"; the request itself fails).
FetchFasta(j) ==
    /\ pc[j] = "fetch_fasta"
    /\ called' = [called EXCEPT ![j] = TRUE]
    /\ \/ /\ pc' = [pc EXCEPT ![j] = "submit"]
          /\ UNCHANGED <<fields, status, pollVars>>
       \/ \E msg \in {"Failed to fetch FASTA", "RequestException"} :
             ToSave(j, ErrorFields(msg))
    /\ UNCHANGED <<dbVars, files, nextId, reply, argVars, i, lost>>

\* Lines 130-135, submit_blast: a RID, or an exception (raise_for_status; no
\* RID in the response).  start_time and attempts of the poll are set.
SubmitBlast(j) ==
    /\ pc[j] = "submit"
    /\ called' = [called EXCEPT ![j] = TRUE]
    /\ \/ /\ pc' = [pc EXCEPT ![j] = "wait"]
          /\ elapsed' = [elapsed EXCEPT ![j] = 0]
          /\ attempts' = [attempts EXCEPT ![j] = 0]
          /\ UNCHANGED <<fields, status>>
       \/ \E msg \in {"Failed to obtain RID", "RequestException"} :
             ToSave(j, ErrorFields(msg))
    /\ UNCHANGED <<dbVars, files, nextId, reply, argVars, i, lost>>

\* Mutant of TimedOut: the budget itself already counts as exceeded.
TimedOutAtBudget(max_wait_time, el) == max_wait_time[1] > 0 /\ el >= max_wait_time[1]

\* wait_for_blast line 59: max_wait_time > 0 and elapsed > max_wait_time,
\* for a max_wait_time that is a number.
TimedOut(max_wait_time, el) == max_wait_time[1] > 0 /\ el > max_wait_time[1]

\* wait_for_blast line 59 with max_wait_time None: None > 0 raises TypeError,
\* which the except of the accession loop catches.
WaitRaises(j) ==
    /\ pc[j] = "wait"
    /\ WaitTimeout(timeout[j]) = <<>>
    /\ ToSave(j, ErrorFields("TypeError"))
    /\ UNCHANGED <<dbVars, files, nextId, reply, argVars, i, histVars>>

\* wait_for_blast lines 59-61: the budget is exceeded at the top of a cycle.
WaitTimesOut(j) ==
    /\ pc[j] = "wait"
    /\ WaitTimeout(timeout[j]) # <<>>
    /\ TimedOut(WaitTimeout(timeout[j]), elapsed[j])
    /\ pc' = [pc EXCEPT ![j] = "classify"]
    /\ status' = [status EXCEPT ![j] = "TIMEOUT"]
    /\ UNCHANGED <<dbVars, files, nextId, reply, argVars, i, fields, pollVars, histVars>>

\* Mutant of PollCycle: the budget is tested again after the status request,
\* before its answer is looked at.
PollCycleBudgetFirst(j, answer, latency) ==
    /\ pc[j] = "wait"
    /\ WaitTimeout(timeout[j]) # <<>>
    /\ ~TimedOut(WaitTimeout(timeout[j]), elapsed[j])
    /\ attempts' = [attempts EXCEPT ![j] = @ + 1]
    /\ elapsed' = [elapsed EXCEPT ![j] = @ + POLL_INTERVAL + latency]
    /\ IF TimedOut(WaitTimeout(timeout[j]), elapsed[j] + POLL_INTERVAL + latency)
       THEN /\ status' = [status EXCEPT ![j] = "TIMEOUT"]
            /\ pc' = [pc EXCEPT ![j] = "classify"]
       ELSE IF ~answer.raised /\ SearchInfoStatus(answer.text) # "WAITING"
            THEN /\ status' = [status EXCEPT ![j] = SearchInfoStatus(answer.text)]
                 /\ pc' = [pc EXCEPT ![j] = "classify"]
            ELSE UNCHANGED <<status, pc>>
    /\ UNCHANGED <<dbVars, files, nextId, reply, argVars, i, fields, histVars>>

\* wait_for_blast lines 63-88: one cycle.  It sleeps 8 s, counts the attempt
\* and asks for the status; the request raises or answers a text.  latency
\* is what the request takes.
PollCycle(j, answer, latency) ==
    /\ pc[j] = "wait"
    /\ WaitTimeout(timeout[j]) # <<>>
    /\ ~TimedOut(WaitTimeout(timeout[j]), elapsed[j])
    /\ attempts' = [attempts EXCEPT ![j] = @ + 1]
    /\ elapsed' = [elapsed EXCEPT ![j] = @ + POLL_INTERVAL + latency]
    /\ IF ~answer.raised /\ SearchInfoStatus(answer.text) # "WAITING"
       THEN /\ status' = [status EXCEPT ![j] = SearchInfoStatus(answer.text)]
            /\ pc' = [pc EXCEPT ![j] = "classify"]
       ELSE UNCHANGED <<status, pc>>
    /\ UNCHANGED <<dbVars, files, nextId, reply, argVars, i, fields, histVars>>

\* Lines 151-158: the branches of a status that is not READY.
Classify(j) ==
    /\ pc[j] = "classify"
    /\ status[j] # "READY"
    /\ ToSave(j, StatusFields(status[j]))
    /\ UNCHANGED <<dbVars, files, nextId, reply, argVars, i, histVars>>

\* Lines 139-140: fetch_result (raise_for_status may raise), then
\* parse_top_hit (ET.fromstring raises on a payload that is not well formed).
FetchResult(j) ==
    /\ pc[j] = "classify"
    /\ status[j] = "READY"
    /\ \/ ToSave(j, ErrorFields("RequestException"))
       \/ \E xml \in Payloads :
            IF ~xml.wellformed
            THEN ToSave(j, ErrorFields("ParseError"))
            ELSE LET hit == ParseTopHit(xml)
                 IN  /\ fields' = [fields EXCEPT ![j] =
                                     Fields(hit[1], "unset", hit[2], hit[3], hit[4])]
                     /\ pc' = [pc EXCEPT ![j] = "gene"]
                     /\ UNCHANGED <<status, pollVars>>
    /\ UNCHANGED <<dbVars, files, nextId, reply, argVars, i, histVars>>

\* Line 141, fetch_gene_symbol: the /gene qualifier of the record, or "NA"
\* when there is none or the request fails; it never raises.
FetchGeneSymbol(j) ==
    /\ pc[j] = "gene"
    /\ \E gene \in {"ins", "NA"} :
          fields' = [fields EXCEPT ![j].gene = gene]
    /\ pc' = [pc EXCEPT ![j] = "save_xml"]
    /\ UNCHANGED <<dbVars, files, nextId, reply, argVars, i, status, pollVars, histVars>>

\* Mutant of SaveXml: the OSError is not caught and reaches the except of
\* the accession loop.
SaveXmlUncaught(j) ==
    /\ pc[j] = "save_xml"
    /\ \/ files' = files \cup {<<j, acc(j)>>} /\ ToSave(j, fields[j])
       \/ UNCHANGED files /\ ToSave(j, ErrorFields("OSError"))
    /\ UNCHANGED <<dbVars, nextId, reply, argVars, i, histVars>>

\* Lines 144-150: the XML file is written, or OSError is passed over.
SaveXml(j) ==
    /\ pc[j] = "save_xml"
    /\ \/ files' = files \cup {<<j, acc(j)>>}
       \/ UNCHANGED files
    /\ ToSave(j, fields[j])
    /\ UNCHANGED <<dbVars, nextId, reply, argVars, i, histVars>>

\* Mutant of NextAccession: the delay is taken before the first accession
\* only.
NextAccessionNoDelay(j) ==
    /\ i' = [i EXCEPT ![j] = @ + 1]
    /\ pc' = [pc EXCEPT ![j] = IF i[j] + 1 < total(j) THEN "fetch_fasta" ELSE "finish"]
    /\ fields' = [fields EXCEPT ![j] = NoFields]

\* The loop goes to the next accession, or ends.  The five fields are
\* reassigned on every path before they are read again.
NextAccession(j) ==
    /\ i' = [i EXCEPT ![j] = @ + 1]
    /\ pc' = [pc EXCEPT ![j] = IF i[j] + 1 < total(j) THEN "sleep" ELSE "finish"]
    /\ fields' = [fields EXCEPT ![j] = NoFields]

\* Lines 166-177: one transaction inserts the result row and updates the
\* progress; commit makes both visible.
SaveResult(j) ==
    /\ pc[j] = "save"
    /\ results' = InsertResult(j, acc(j), fields[j])
    /\ jobs' = UpdateProgress(j, Progress(i[j] + 1, total(j)))
    /\ NextAccession(j)
    /\ UNCHANGED <<files, nextId, reply, argVars, status, pollVars, histVars>>

\* Mutant of SaveResultFails: the row is committed on its own, and the
\* failure loses the progress only.
SaveResultFailsKeepsRow(j) ==
    /\ pc[j] = "save"
    /\ results' = InsertResult(j, acc(j), fields[j])
    /\ lost' = [lost EXCEPT ![j].accession = @ + 1]
    /\ NextAccession(j)
    /\ UNCHANGED <<jobs, files, nextId, reply, argVars, status, pollVars, called>>

\* Lines 178-179: a statement of the transaction or its commit raises; what
\* was not committed is rolled back with the dropped connection.
SaveResultFails(j) ==
    /\ pc[j] = "save"
    /\ lost' = [lost EXCEPT ![j].accession = @ + 1]
    /\ NextAccession(j)
    /\ UNCHANGED <<dbVars, files, nextId, reply, argVars, status, pollVars, called>>

\* Mutant of MarkDone: the final UPDATE sets the progress and not the status.
MarkDoneProgressOnly(j) ==
    /\ pc[j] = "finish"
    /\ jobs' = {IF r.id = j THEN JobRow(j, r.status, 100) ELSE r : r \in jobs}
    /\ pc' = [pc EXCEPT ![j] = "returned"]
    /\ UNCHANGED <<results, files, nextId, reply, argVars, i, status, fields, pollVars, histVars>>

\* Mutant of MarkDone: the final UPDATE sets the status and not the progress.
MarkDoneStatusOnly(j) ==
    /\ pc[j] = "finish"
    /\ jobs' = {IF r.id = j THEN JobRow(j, "DONE", r.progress) ELSE r : r \in jobs}
    /\ pc' = [pc EXCEPT ![j] = "returned"]
    /\ UNCHANGED <<results, files, nextId, reply, argVars, i, status, fields, pollVars, histVars>>

\* Lines 181-187: the UPDATE that marks the job DONE commits.
MarkDone(j) ==
    /\ pc[j] = "finish"
    /\ jobs' = UpdateJob(j, "DONE", 100)
    /\ pc' = [pc EXCEPT ![j] = "returned"]
    /\ UNCHANGED <<results, files, nextId, reply, argVars, i, status, fields, pollVars, histVars>>

\* Lines 188-189: the final write raises; the thread ends all the same.
MarkDoneFails(j) ==
    /\ pc[j] = "finish"
    /\ lost' = [lost EXCEPT ![j].done = TRUE]
    /\ pc' = [pc EXCEPT ![j] = "returned"]
    /\ UNCHANGED <<dbVars, files, nextId, reply, argVars, i, status, fields, pollVars, called>>

\* A step of the thread of job j.
Runner(j) ==
    \/ MarkRunning(j)
    \/ MarkRunningFails(j)
    \/ Sleep(j)
    \/ FetchFasta(j)
    \/ SubmitBlast(j)
    \/ WaitRaises(j)
    \/ WaitTimesOut(j)
    \/ \E answer \in Answers, latency \in 0..MaxLatency :
          PollCycle(j, answer, latency)
    \/ Classify(j)
    \/ FetchResult(j)
    \/ FetchGeneSymbol(j)
    \/ SaveXml(j)
    \/ SaveResult(j)
    \/ SaveResultFails(j)
    \/ MarkDone(j)
    \/ MarkDoneFails(j)

Requests ==
    \/ \E user_id \in {0, 1}, lines \in Inputs, t \in Timeouts : Run(user_id, lines, t)
    \/ \E user_id \in {0, 1}, lines \in Inputs : RunRejected(user_id, lines)
    \/ \E is_admin \in {0, 1}, j \in JobIds : DeleteJob(is_admin, j)
    \/ \E is_admin \in {0, 1} : DeleteRejected(is_admin)

Next == Requests \/ \E j \in JobIds : Runner(j)

Spec == Init /\ [][Next]_vars

\* Every thread that is started runs on: the interpreter schedules each
\* thread, and each call of a thread returns.
FairSpec == Spec /\ \A j \in JobIds : WF_vars(Runner(j))

\* The pipeline against a search service whose status never becomes
\* terminal: every status request raises or answers a text that holds no
\* READY and no FAILED marker.
NeverReadyAnswers == {a \in Answers : a.raised \/ SearchInfoStatus(a.text) = "WAITING"}

RunnerNeverReady(j) ==
    \/ MarkRunning(j)
    \/ MarkRunningFails(j)
    \/ Sleep(j)
    \/ FetchFasta(j)
    \/ SubmitBlast(j)
    \/ WaitRaises(j)
    \/ WaitTimesOut(j)
    \/ \E answer \in NeverReadyAnswers, latency \in 0..MaxLatency :
          PollCycle(j, answer, latency)
    \/ Classify(j)
    \/ SaveResult(j)
    \/ SaveResultFails(j)
    \/ MarkDone(j)
    \/ MarkDoneFails(j)

NextNeverReady == Requests \/ \E j \in JobIds : RunnerNeverReady(j)

NeverReadySpec ==
    Init /\ [][NextNeverReady]_vars /\ \A j \in JobIds : WF_vars(RunnerNeverReady(j))

\* Two /run requests, each of which starts a thread: the threads of the
\* two jobs run side by side.  The searches have no budget or a budget
\* shorter than one poll cycle.
ConcurrentJobIds == 1..(MaxJobs + 1)
ConcurrentTimeouts == {0, 5}

ConcurrentRequests ==
    \/ \E user_id \in {0, 1}, lines \in Inputs, t \in ConcurrentTimeouts :
          Run(user_id, lines, t)
    \/ \E user_id \in {0, 1}, lines \in Inputs : RunRejected(user_id, lines)
    \/ \E is_admin \in {0, 1}, j \in ConcurrentJobIds : DeleteJob(is_admin, j)
    \/ \E is_admin \in {0, 1} : DeleteRejected(is_admin)

ConcurrentNext == ConcurrentRequests \/ \E j \in ConcurrentJobIds : Runner(j)

ConcurrentSpec == InitOf(ConcurrentJobIds) /\ [][ConcurrentNext]_vars

\* The pipeline together with the readers.  The id of a reader's request is
\* one of the ids of the model, handed out or not, or 0, which is no job's.
ReaderIds == {0} \cup JobIds

Readers ==
    \/ \E job_id \in ReaderIds : Status(job_id)
    \/ \E job_id \in ReaderIds : Results(job_id)
    \/ \E job_id \in ReaderIds : DownloadCsv(job_id)

ReaderNext == Requests \/ Readers \/ \E j \in JobIds : Runner(j)

ReaderSpec == Init /\ [][ReaderNext]_vars

\* One job with a long list, no delete, and the shortest work for every
\* accession: the sequence service knows none of them, and every store write
\* commits.

\* The input of n lines, each an accession name between white space.
LongInput(n) == [k \in 1..n |-> <<" ", AccessionName(k), " ">>]

\* fetch_fasta raises "Failed to fetch FASTA".
FetchFastaNotFound(j) ==
    /\ FetchFasta(j)
    /\ pc'[j] = "save"
    /\ fields'[j] = ErrorFields("Failed to fetch FASTA")

LongRequests == \E n \in 1..MaxLongJob : StartJob(1, LongInput(n), MaxTimeout)

LongRunner(j) ==
    \/ MarkRunning(j)
    \/ Sleep(j)
    \/ FetchFastaNotFound(j)
    \/ SaveResult(j)
    \/ MarkDone(j)

LongNext == LongRequests \/ LongRunner(1)

LongJobSpec == InitOf({1}) /\ [][LongNext]_vars

(* ------------------------------ the claims ---------------------------- *)

Started == {j \in JobIds : pc[j] # "none"}

\* C1, as stated: in every state where a job's status is DONE, the number of
\* result rows stored for it equals the number of accessions submitted for
\* it, whatever the remote and the store write outcomes were.
C1_DoneCountEqualsSubmitted ==
    \A r \in jobs :
        r.status = "DONE" => Len(ResultsOf(r.id)) = Len(accessions[r.id])

\* C1, amended: in every state where a job's status is DONE, the number of
\* result rows stored for it equals the number of accessions submitted for
\* it minus the number of accessions whose store write failed (so it equals
\* the number submitted when no such write failed, and is never more).
C1_DoneCountEqualsCommitted ==
    \A r \in jobs :
        r.status = "DONE" =>
            Len(ResultsOf(r.id)) = Len(accessions[r.id]) - lost[r.id].accession

\* A DONE job that has lost the write of one accession and kept another's.
C1_Witness ==
    \E r \in jobs :
        /\ r.status = "DONE"
        /\ lost[r.id].accession = 1
        /\ Len(ResultsOf(r.id)) = 1

\* C2, as stated: in every state a reader can observe, a job's progress is
\* 100 if and only if its status is DONE.
C2_HundredIffDone ==
    \A r \in jobs : (r.progress = 100) <=> (r.status = "DONE")

\* C2, amended: a job whose status is DONE has progress 100; a job whose
\* progress is 100 while its status is still RUNNING is one whose runner has
\* processed its last accession (the write of the last accession, which sets
\* 100, commits before the write that marks the job DONE).
C2_DoneImpliesHundred ==
    \A r \in jobs :
        /\ r.status = "DONE" => r.progress = 100
        /\ r.progress = 100 /\ r.status = "RUNNING" =>
              /\ i[r.id] = Len(accessions[r.id])
              /\ pc[r.id] \in {"finish", "returned"}

\* A reader sees progress 100 and status RUNNING before the final write.
C2_Witness ==
    \E r \in jobs : r.progress = 100 /\ r.status = "RUNNING" /\ pc[r.id] = "finish"

\* What C3_ProgressMonotone asks of every step.
C3_ProgressStep ==
    \A r \in jobs' :
        /\ r.progress \in 0..100
        /\ \A old \in jobs : old.id = r.id => old.progress <= r.progress

\* C3: across the writes of a job's runner (the RUNNING mark, the progress
\* writes, some of which fail, the DONE mark) the stored progress of the job
\* never decreases and stays within 0..100.
C3_ProgressMonotone == [][C3_ProgressStep]_vars

\* A job whose progress stands between 0 and 100 after a failed write.
C3_Witness ==
    \E r \in jobs : r.progress \in 1..99 /\ lost[r.id].accession = 1

\* A step in which fetch_fasta, submit_blast, wait_for_blast, fetch_result
\* or parse_top_hit raises for the accession that thread j works on: the
\* thread goes from the call to the write without the call's result.
FailsFor(j) ==
    /\ pc'[j] = "save"
    /\ \/ pc[j] \in {"fetch_fasta", "submit", "wait"}
       \/ pc[j] = "classify" /\ status[j] = "READY"

\* The step in which thread j leaves the store write of an accession.
LeavesWrite(j) == pc[j] = "save" /\ pc'[j] # "save"

\* The thread goes on to the next accession, if there is one.
GoesOn(j) ==
    /\ i'[j] = i[j] + 1
    /\ pc'[j] = IF i[j] + 1 < Len(accessions[j]) THEN "sleep" ELSE "finish"

IsErrorRecord(f) ==
    /\ f.top_hit = "ERROR" /\ f.gene = "ERROR"
    /\ f.species \in ErrorTexts
    /\ f.bit_score = "NA" /\ f.evalue = "NA"

\* What C4_ErrorRowAlwaysAppended asks of every step.
C4_ErrorRowAlwaysAppendedStep ==
    \A j \in Started :
        /\ FailsFor(j) => IsErrorRecord(fields'[j]) /\ results' = results /\ i'[j] = i[j]
        /\ LeavesWrite(j) /\ IsErrorRecord(fields[j]) =>
              /\ results' = Append(results,
                     [job_id |-> j, accession |-> accessions[j][i[j] + 1], f |-> fields[j]])
              /\ GoesOn(j)

\* C4, as stated: a failure of a remote step or of the parser for accession
\* k leaves the thread with ERROR fields (species the error text, the scores
\* "NA") and the stored rows as they were; the thread then appends exactly
\* one row for k with these fields, and goes on to accession k+1.
C4_ErrorRowAlwaysAppended == [][C4_ErrorRowAlwaysAppendedStep]_vars

\* What C4_FailureIsolation asks of every step.
C4_FailureIsolationStep ==
    \A j \in Started :
        /\ FailsFor(j) => IsErrorRecord(fields'[j]) /\ results' = results /\ i'[j] = i[j]
        /\ LeavesWrite(j) /\ IsErrorRecord(fields[j]) =>
              /\ \/ results' = Append(results,
                        [job_id |-> j, accession |-> accessions[j][i[j] + 1], f |-> fields[j]])
                 \/ results' = results /\ lost'[j].accession = lost[j].accession + 1
              /\ GoesOn(j)

\* C4, amended: a failure of a remote step or of the parser for accession k
\* leaves the thread with ERROR fields (species the error text, the scores
\* "NA") and the stored rows as they were; the one store write of k then
\* appends exactly one row for k with these fields when it commits and none
\* when it fails; either way the rows stored before are unchanged and the
\* thread goes on to accession k+1.
C4_FailureIsolation == [][C4_FailureIsolationStep]_vars

\* The first accession failed, its ERROR row is stored, and the thread is
\* at the first remote call of the second accession.
C4_Witness ==
    \E j \in Started :
        /\ pc[j] = "fetch_fasta" /\ i[j] = 1
        /\ Len(ResultsOf(j)) = 1
        /\ ResultsOf(j)[1].accession = accessions[j][1]
        /\ IsErrorRecord(ResultsOf(j)[1].f)

\* C5, as stated, for a thread that has ended: unless its final write
\* failed, its job (when not deleted) is DONE, whatever else failed.
C5_DoneUnlessFinalWriteFails ==
    \A r \in jobs :
        pc[r.id] \in {"aborted", "returned"} /\ ~lost[r.id].done => r.status = "DONE"

\* C5, amended: every job that has been created and is not deleted
\* eventually has status DONE, for every combination of remote failures and
\* store write failures other than a failure of the initial mark-RUNNING
\* write (the runner returns and the job stays RUNNING) or of the final
\* mark-DONE write.
C5_EventuallyDone ==
    \A j \in JobIds :
        (pc[j] # "none") ~>
            (~JobExists(j) \/ lost[j].running \/ lost[j].done \/ GetJob(j).status = "DONE")

\* A job is DONE although a remote call failed for one of its accessions and
\* the store write of another was lost.
C5_Witness ==
    \E r \in jobs :
        /\ r.status = "DONE"
        /\ lost[r.id].accession = 1
        /\ \E k \in 1..Len(results) :
              results[k].job_id = r.id /\ results[k].f.top_hit = "ERROR"

\* What C6_ZeroTimeoutPollsToTerminal asks of every step.
C6_ZeroTimeoutStep ==
    \A j \in Started :
        timeout[j] = 0 /\ pc[j] = "wait" /\ pc'[j] # "wait" =>
            pc'[j] = "classify" /\ status'[j] \in {"READY", "NO_HITS", "FAILED"}

\* C6: with timeout 0 the poll of an accession has no budget and goes on
\* until the service reports a terminal status: the thread leaves
\* wait_for_blast only with READY, NO_HITS or FAILED as its return value.
C6_ZeroTimeoutPollsToTerminal == [][C6_ZeroTimeoutStep]_vars

\* C7: against a service that never reaches a terminal status, a poll with a
\* positive budget ends and returns TIMEOUT, and TIMEOUT is never returned
\* while the elapsed time is at most the budget.
C7_PollTimesOut ==
    /\ [](\A j \in JobIds :
            pc[j] = "classify" /\ status[j] = "TIMEOUT" => elapsed[j] > timeout[j])
    /\ \A j \in JobIds :
          (pc[j] = "wait" /\ timeout[j] > 0) ~> (pc[j] = "classify" /\ status[j] = "TIMEOUT")

\* A poll returns TIMEOUT after a cycle that ended exactly at the budget and
\* one more cycle.
C7_Witness ==
    \E j \in JobIds :
        /\ pc[j] = "classify" /\ status[j] = "TIMEOUT"
        /\ timeout[j] = MaxTimeout /\ attempts[j] = 2

\* C8: if the initial mark-RUNNING write fails, the runner aborts the job:
\* it makes no remote call, appends no row, writes no progress and never
\* marks the job DONE.
C8_AbortOnMarkRunningFailure ==
    \A j \in JobIds :
        lost[j].running =>
            /\ pc[j] = "aborted"
            /\ ~called[j]
            /\ i[j] = 0 /\ lost[j].accession = 0 /\ ~lost[j].done
            /\ ResultsOf(j) = <<>>
            /\ \A r \in jobs : r.id = j => r.status = "RUNNING" /\ r.progress = 0

\* The mark-RUNNING write of a job of two accessions has failed.
C8_Witness ==
    \E j \in JobIds : lost[j].running /\ Len(accessions[j]) = 2 /\ JobExists(j)

\* What C9_FieldsByStatus asks of every step.
C9_FieldsByStatusStep ==
    \A j \in Started :
        /\ pc[j] = "classify" /\ pc'[j] # "classify" /\ status[j] # "READY" =>
              /\ pc'[j] = "save"
              /\ fields'[j] =
                    IF status[j] = "NO_HITS"
                    THEN [top_hit |-> "No hit", gene |-> "No hit", species |-> "No hit",
                          bit_score |-> "No hit", evalue |-> "No hit"]
                    ELSE IF status[j] = "TIMEOUT"
                    THEN [top_hit |-> "TIMEOUT", gene |-> "TIMEOUT",
                          species |-> "BLAST search timed out",
                          bit_score |-> "NA", evalue |-> "NA"]
                    ELSE [top_hit |-> "NA", gene |-> "NA", species |-> "NA",
                          bit_score |-> "NA", evalue |-> "NA"]
        /\ pc'[j] \in {"gene", "save_xml"} => pc[j] # "save" /\ status'[j] = "READY"
        /\ LeavesWrite(j) /\ results' # results =>
              results' = Append(results,
                  [job_id |-> j, accession |-> accessions[j][i[j] + 1], f |-> fields[j]])

\* C9: the fields of an accession follow from what the poll returned:
\* NO_HITS gives "No hit" five times, TIMEOUT gives TIMEOUT, TIMEOUT, the
\* text, NA, NA, any other status but READY gives "NA" five times, and in
\* these cases the thread goes to the write at once; only under READY is the
\* thread ever at the annotation lookup or the XML file, which follow
\* fetch_result and the parser; the row written holds the fields.
C9_FieldsByStatus == [][C9_FieldsByStatusStep]_vars

\* The rows of a job record a TIMEOUT and a search without hits.
C9_Witness ==
    \E j \in Started :
        /\ Len(ResultsOf(j)) = 2
        /\ ResultsOf(j)[1].f.top_hit = "TIMEOUT"
        /\ ResultsOf(j)[2].f.top_hit = "No hit"

\* What C10_RunnerOutlivesJob asks of every step.
C10_RunnerOutlivesJobStep ==
    \A j \in Started :
        /\ ~JobExists(j) => ~(\E r \in jobs' : r.id = j)
        /\ JobExists(j) /\ ~(\E r \in jobs' : r.id = j) =>
              /\ pc'[j] = pc[j] /\ i'[j] = i[j] /\ fields'[j] = fields[j]
              /\ status'[j] = status[j] /\ accessions'[j] = accessions[j]
        /\ ~JobExists(j) /\ LeavesWrite(j) /\ lost'[j] = lost[j] =>
              results' = Append(results,
                  [job_id |-> j, accession |-> accessions[j][i[j] + 1], f |-> fields[j]])

\* C10: deleting a job does not stop its runner.  The delete leaves the
\* thread where it is; the thread's later writes append rows with the
\* deleted job's id and never bring the job row back; and the thread works
\* through the remaining accessions to its end.
C10_RunnerOutlivesJob ==
    /\ [][C10_RunnerOutlivesJobStep]_vars
    /\ \A j \in JobIds :
          (~JobExists(j) /\ pc[j] \notin {"none", "start", "aborted"}) ~> (pc[j] = "returned")

\* The thread of a deleted job has ended and left a row of that job.
C10_Witness ==
    \E j \in Started :
        ~JobExists(j) /\ pc[j] = "returned" /\ Len(ResultsOf(j)) >= 1

\* The variables of thread j that the thread itself assigns.
Locals(j) ==
    <<pc[j], i[j], status[j], fields[j], elapsed[j], attempts[j], called[j], lost[j]>>

\* A step of the thread of job j (the request that starts it is none).
RunnerStep(j) == pc[j] # "none" /\ Locals(j)' # Locals(j)

\* What C11_RunnersDoNotInterfere asks of every step.
C11_RunnersDoNotInterfereStep ==
    \A a \in DOMAIN pc :
        RunnerStep(a) =>
            /\ {r \in jobs' : r.id # a} = {r \in jobs : r.id # a}
            /\ SelectSeq(results', LAMBDA r : r.job_id # a)
                  = SelectSeq(results, LAMBDA r : r.job_id # a)
            /\ \A b \in DOMAIN pc \ {a} :
                  /\ Locals(b)' = Locals(b)
                  /\ accessions'[b] = accessions[b] /\ timeout'[b] = timeout[b]
            /\ \/ ResultsOf(a)' = ResultsOf(a)
               \/ /\ pc[a] = "save"
                  /\ ResultsOf(a)' = Append(ResultsOf(a),
                        [job_id |-> a, accession |-> accessions[a][i[a] + 1], f |-> fields[a]])
            /\ \A r \in jobs' : r.id = a =>
                  /\ JobExists(a)
                  /\ \/ r = GetJob(a)
                     \/ r = [id |-> a, status |-> "RUNNING", progress |-> 0] /\ i[a] = 0
                     \/ r = [id |-> a, status |-> "DONE", progress |-> 100]
                     \/ /\ r.status = GetJob(a).status
                        /\ r.progress = Progress(i[a] + 1, Len(accessions[a]))

\* C11: when the runners of two jobs run side by side, under every
\* interleaving a step of the runner of job A changes no job row and no
\* result row but those of A and no variable of the runner of B, and what it
\* writes to the rows of A follows from A's own rows and variables alone: so
\* the status, the progress and the result rows of B are what they would be
\* without the runner of A.
C11_RunnersDoNotInterfere == [][C11_RunnersDoNotInterfereStep]_vars

\* Both runners have written their row, the job started second first, and
\* both jobs are still RUNNING.
C11_Witness ==
    /\ Len(results) = 2
    /\ results[1].job_id = 2 /\ results[2].job_id = 1
    /\ \A r \in jobs : r.status = "RUNNING" /\ r.progress = 100
    /\ Cardinality(jobs) = 2

\* The place of an accession in the list of its job.
PlaceIn(list, a) == CHOOSE k \in 1..Len(list) : list[k] = a

\* The position from which a thread comes to each call of an accession.
CalledFrom ==
    [submit |-> "fetch_fasta", wait |-> "submit", classify |-> "wait",
     gene |-> "classify", save_xml |-> "gene"]

\* What C12_OneAccessionAtATime asks of every step.
C12_OneAccessionAtATimeStep ==
    \A j \in Started :
        /\ pc'[j] = "fetch_fasta" /\ pc[j] # "fetch_fasta" => pc[j] = "sleep" /\ i'[j] = i[j]
        /\ pc'[j] \in DOMAIN CalledFrom /\ pc'[j] # pc[j] =>
              pc[j] = CalledFrom[pc'[j]] /\ i'[j] = i[j]
        /\ pc'[j] = "sleep" /\ pc[j] # "sleep" =>
              \/ pc[j] = "start" /\ i[j] = 0 /\ i'[j] = 0
              \/ pc[j] = "save" /\ i'[j] = i[j] + 1
        /\ i'[j] # i[j] => pc[j] = "save" /\ i'[j] = i[j] + 1
        /\ ResultsOf(j)' # ResultsOf(j) /\ pc'[j] # pc[j] =>
              /\ pc[j] = "save"
              /\ ResultsOf(j)' = Append(ResultsOf(j), ResultsOf(j)'[Len(ResultsOf(j)) + 1])
              /\ ResultsOf(j)'[Len(ResultsOf(j)) + 1].accession = accessions[j][i[j] + 1]

\* What C12_OneAccessionAtATime asks of every state.
C12_RowsInInputOrder ==
    \A j \in Started :
        LET rows == ResultsOf(j)
        IN  \A k \in 1..Len(rows) :
                /\ PlaceIn(accessions[j], rows[k].accession) <= i[j]
                /\ \A l \in 1..(k - 1) :
                      PlaceIn(accessions[j], rows[l].accession)
                          < PlaceIn(accessions[j], rows[k].accession)

\* C12: within a job the accessions are processed one after another in
\* input order.  A thread comes to the first remote call of an accession
\* only from the delay, and to every later call of that accession only from
\* the call before it; it comes to the delay of accession i+1 only from the
\* completed write of accession i (the loop index moves nowhere else, and
\* by one); the write appends the row of the accession at the loop index;
\* and the rows of a job stand in the order of its input.
C12_OneAccessionAtATime ==
    [] C12_RowsInInputOrder /\ [][C12_OneAccessionAtATimeStep]_vars

\* The thread is in the delay of its second accession, and the row of the
\* first is stored with its progress.
C12_Witness ==
    \E j \in Started :
        /\ pc[j] = "sleep" /\ i[j] = 1
        /\ Len(ResultsOf(j)) = 1 /\ ResultsOf(j)[1].accession = accessions[j][1]
        /\ \E r \in jobs : r.id = j /\ r.progress = 50

\* The fields that parse_top_hit and fetch_gene_symbol give.
IsParsedRecord(f) ==
    /\ \E xml \in Payloads :
          /\ xml.wellformed
          /\ <<f.top_hit, f.species, f.bit_score, f.evalue>> = ParseTopHit(xml)
    /\ f.gene \in {"ins", "NA"}

\* What C13_XmlFailureLeavesRecord asks of every step.
C13_XmlFailureLeavesRecordStep ==
    \A j \in Started :
        /\ pc[j] = "save_xml" /\ pc'[j] # "save_xml" =>
              /\ IsParsedRecord(fields[j])
              /\ pc'[j] = "save" /\ i'[j] = i[j]
              /\ fields'[j] = fields[j]
              /\ results' = results
        /\ LeavesWrite(j) /\ IsParsedRecord(fields[j]) /\ results' # results =>
              results' = Append(results,
                  [job_id |-> j, accession |-> accessions[j][i[j] + 1], f |-> fields[j]])

NewJobIds == {r.id : r \in jobs'} \ {r.id : r \in jobs}

\* An input that is empty or holds white space only.
AllWhiteSpace(lines) ==
    \A k \in 1..Len(lines) : \A c \in 1..Len(lines[k]) : lines[k][c] = " "

\* What C14_StartJob asks of every step.
C14_StartJobStep ==
    /\ \A lines \in Inputs, t \in Timeouts :
          AllWhiteSpace(lines) /\ (StartJob(1, lines, t) \/ RunRejected(1, lines)) =>
              UNCHANGED vars
    /\ \A j \in NewJobIds :
          /\ NewJobIds = {j}
          /\ j = nextId + 1 /\ nextId' = j
          /\ jobs' = jobs \cup {[id |-> j, status |-> "RUNNING", progress |-> 0]}
          /\ results' = results
          /\ pc[j] = "none" /\ pc'[j] = "start"
          /\ \A k \in DOMAIN pc \ {j} : pc'[k] = pc[k]
          /\ accessions'[j] # <<>>
          /\ i'[j] = 0 /\ ~called'[j]
    /\ \A j \in DOMAIN pc :
          pc[j] = "none" /\ pc'[j] # "none" => j \in NewJobIds
    /\ nextId' # nextId => NewJobIds # {}

\* What C14_StartJob asks of every state.
C14_OneRunnerPerJob ==
    \A j \in DOMAIN pc :
        IF pc[j] = "none"
        THEN j > nextId /\ ~JobExists(j) /\ ResultsOf(j) = <<>>
        ELSE /\ j <= nextId
             /\ accessions[j] # <<>>
             /\ \A k \in 1..Len(accessions[j]) : accessions[j][k] # " "

\* C14: a /run request whose accession input is empty or white space only
\* changes nothing: no job row, no thread.  A step that adds a job row adds
\* exactly one, with an id never handed out before, status RUNNING and
\* progress 0, and starts exactly one thread, for that id, which has done
\* nothing yet when the request returns; a thread is started in no other
\* way, and the accession list of every thread is non-empty and holds no
\* blank entry.
C14_StartJob == [] C14_OneRunnerPerJob /\ [][C14_StartJobStep]_vars

\* A job of two accessions is created and its thread has not run yet.
C14_Witness ==
    \E j \in Started :
        /\ pc[j] = "start" /\ Len(accessions[j]) = 2 /\ ~lost[j].running
        /\ [id |-> j, status |-> "RUNNING", progress |-> 0] \in jobs
        /\ results = <<>>

\* What C15_StatusRunningThenDone asks of every step.
C15_DoneStaysDoneStep ==
    \A r \in jobs' :
        \A old \in jobs : old.id = r.id /\ old.status = "DONE" => r.status = "DONE"

\* C15: in every reachable state the status of a job is RUNNING or DONE,
\* and no step, of its own runner or of the runner of another job, takes a
\* job that is DONE back to RUNNING.
C15_StatusRunningThenDone ==
    /\ [](\A r \in jobs : r.status \in {"RUNNING", "DONE"})
    /\ [][C15_DoneStaysDoneStep]_vars

\* One job is DONE while the runner of the other, which has stored its row,
\* has still to mark its job.
C15_Witness ==
    \E r, q \in jobs :
        /\ r.status = "DONE" /\ pc[r.id] = "returned"
        /\ q.status = "RUNNING" /\ pc[q.id] = "finish" /\ Len(ResultsOf(q.id)) = 1

\* The row that the write of thread j appends.
RowOf(j) == [job_id |-> j, accession |-> accessions[j][i[j] + 1], f |-> fields[j]]

\* Table jobs with the progress of the accession of thread j written.
WithProgressOf(j) ==
    {IF r.id = j
     THEN [id |-> j, status |-> r.status,
           progress |-> Progress(i[j] + 1, Len(accessions[j]))]
     ELSE r : r \in jobs}

\* What C17_IndependentWrites asks of every step.
C17_IndependentWritesStep ==
    \A j \in Started :
        LeavesWrite(j) /\ JobExists(j) /\ lost'[j] # lost[j] =>
            /\ results' = Append(results, RowOf(j)) \/ jobs' = WithProgressOf(j)
            /\ GoesOn(j)

\* C17, as stated: the append of the row and the write of the progress are
\* independent steps, so that when one of the two fails for an accession
\* the other still takes effect (the row is stored, or the progress value is
\* written), and the thread goes on to the next accession.
C17_IndependentWrites == [][C17_IndependentWritesStep]_vars

\* What C17_WritesCommitTogether asks of every step.
C17_WritesCommitTogetherStep ==
    \A j \in Started :
        LeavesWrite(j) =>
            /\ \/ results' = Append(results, RowOf(j)) /\ jobs' = WithProgressOf(j)
               \/ /\ results' = results /\ jobs' = jobs
                  /\ lost'[j].accession = lost[j].accession + 1
            /\ GoesOn(j)

\* C17, amended: for each accession the append of the row and the write of
\* the progress are one best-effort step, a single transaction: either both
\* take effect or, when any statement of it or the commit fails, neither
\* the row nor the progress value is stored; in both cases the thread goes
\* on to the next accession.
C17_WritesCommitTogether == [][C17_WritesCommitTogetherStep]_vars

\* The write of the first accession has failed: no row, progress still 0,
\* and the thread is at the second accession.
C17_Witness ==
    \E j \in Started :
        /\ lost[j].accession = 1 /\ i[j] = 1 /\ pc[j] = "fetch_fasta"
        /\ ResultsOf(j) = <<>>
        /\ [id |-> j, status |-> "RUNNING", progress |-> 0] \in jobs

\* What C19_TimeoutAtCycleTop asks of every step.
C19_TimeoutAtCycleTopStep ==
    \A j \in Started :
        /\ pc[j] = "wait" /\ status'[j] = "TIMEOUT" =>
              /\ attempts'[j] = attempts[j] /\ elapsed'[j] = elapsed[j]
              /\ attempts[j] >= 1
              /\ timeout[j] > 0 /\ elapsed[j] > timeout[j]
        /\ pc[j] = "wait" /\ attempts'[j] # attempts[j] =>
              /\ attempts'[j] = attempts[j] + 1
              /\ elapsed'[j] >= elapsed[j] + 8
              /\ elapsed[j] <= timeout[j]
              /\ pc'[j] = "classify" => status'[j] \in {"READY", "NO_HITS", "FAILED"}
        /\ \A answer \in Answers, latency \in 0..MaxLatency :
              /\ PollCycle(j, answer, latency)
              /\ ~answer.raised
              /\ "Status=READY" \in answer.text \/ "Status=FAILED" \in answer.text
              => /\ pc'[j] = "classify"
                 /\ status'[j] =
                       IF "Status=READY" \in answer.text
                       THEN IF "ThereAreHits=yes" \in answer.text THEN "READY" ELSE "NO_HITS"
                       ELSE "FAILED"

\* C19: wait_for_blast decides TIMEOUT only at the top of a poll cycle, in a
\* step that makes no status check, and with a positive budget only after
\* at least one check has been made; a cycle that makes a check never ends
\* in TIMEOUT, and a terminal status (READY, NO_HITS, FAILED) that its check
\* sees is returned, also when the budget ran out during that cycle.
C19_TimeoutAtCycleTop == [][C19_TimeoutAtCycleTopStep]_vars

\* A poll returns READY from its first check, made after the budget of 5 s
\* had run out during the sleep of that cycle.
C19_Witness ==
    \E j \in Started :
        /\ pc[j] = "classify" /\ status[j] = "READY"
        /\ timeout[j] = 5 /\ attempts[j] = 1 /\ elapsed[j] > timeout[j]

\* C18: for a job of N accessions that is not deleted and has lost no store
\* write, in every state in which its status is RUNNING the stored progress
\* is floor(r * 100 / N), r being the number of rows stored for the job.
C18_ProgressIsFloorOfRows ==
    \A r \in jobs :
        /\ r.status = "RUNNING"
        /\ lost[r.id].accession = 0 /\ ~lost[r.id].running
        => r.progress = (Len(ResultsOf(r.id)) * 100) \div Len(accessions[r.id])

\* What C16_ReadersOnlyRead asks of every step.
C16_ReadersOnlyReadStep ==
    reply' # reply =>
        /\ reply'.op \in {"status", "results", "download_csv"}
        /\ jobs' = jobs /\ results' = results /\ files' = files /\ nextId' = nextId
        /\ called' = called /\ pc' = pc /\ i' = i /\ lost' = lost
        /\ reply'.op = "status" =>
              LET j == reply'.job_id
              IN  /\ j \notin 1..nextId => reply'.code = 404
                  /\ IF \E r \in jobs : r.id = j
                     THEN /\ reply'.code = 200
                          /\ \E r \in jobs :
                                /\ r.id = j
                                /\ reply'.job = <<[progress |-> r.progress, status |-> r.status]>>
                     ELSE reply'.code = 404 /\ reply'.job = <<>>
        /\ reply'.op = "results" =>
              reply'.rows = SelectSeq(results, LAMBDA r : r.job_id = reply'.job_id)
        /\ reply'.op = "download_csv" =>
              Len(reply'.lines) = 1 + Len(SelectSeq(results, LAMBDA r : r.job_id = reply'.job_id))

\* C16: a step in which the status, the results or the CSV reader answers
\* leaves the job store (and the files) unchanged and is no step of a
\* runner, so that no remote call is made; the status reader answers the
\* progress and the status stored at that moment, and 404 for an id that has
\* no job row: one never handed out, or one whose job was deleted.
C16_ReadersOnlyRead == [][C16_ReadersOnlyReadStep]_vars

\* The status reader has answered 404 for a deleted job whose runner is
\* still polling.
C16_Witness ==
    /\ reply.op = "status" /\ reply.code = 404 /\ reply.job_id \in Started
    /\ ~JobExists(reply.job_id)
    /\ pc[reply.job_id] = "wait" /\ attempts[reply.job_id] = 1

====
